---- MODULE Spec2Model ----
(***************************************************************************)
(* p2p_swap: an Anchor program with four instructions (initialize_user,    *)
(* create_offer, accept_offer, cancel_offer) over three kinds of accounts: *)
(* UserProfile, Offer and SPL token accounts (the users' own and the       *)
(* program-derived vaults).  Every instruction is one atomic transaction:  *)
(* account validation (#[derive(Accounts)]), then the handler, then the    *)
(* exit step (close = maker); any error discards every effect.             *)
(*                                                                         *)
(* Not modelled: Offer.created_at (written once from the clock, never      *)
(* read), transaction fees, and the message log.                           *)
(***************************************************************************)
EXTENDS Integers, Sequences, FiniteSets, TLC

\* ------------------------------------------------------------------ bounds
\* offer_count is a u64; U64Max stands for u64::MAX scaled down so that the
\* overflow of checked_add is reachable.
U64Max == 2
\* Largest amount an instruction or a direct ledger transfer is called with.
MaxAmount == 2

Users == {"alice", "bob"}
Mints == {"A", "B"}
Amounts == 0..MaxAmount
OfferIds == 0..U64Max

\* ------------------------------------------------------------ account keys
\* Every key is a 4-tuple <<kind, user, id, mint>>, so that any two keys can
\* be compared.  Program-derived addresses are injective in their seeds.
Wallet(u) == <<"wallet", u, 0, "-">>

\* seeds = [b"user_profile", authority.key()]
ProfilePda(authority) == <<"user_profile", authority[2], 0, "-">>

\* seeds = [b"offer", maker.key(), offer_id.to_le_bytes()]
OfferPda(maker, offer_id) == <<"offer", maker[2], offer_id, "-">>

\* seeds = [b"vault", offer.key(), mint_offered.key()]
VaultPda(offer, mint) == <<"vault", offer[2], offer[3], mint>>

\* The token account user u holds for mint m (one per user and mint).
UserToken(u, m) == <<"token", u, 0, m>>

\* The bump find_program_address returns for an address (the canonical one).
CanonicalBump(addr) == 255

Wallets == {Wallet(u) : u \in Users}
ProfileAddrs == {ProfilePda(w) : w \in Wallets}
OfferAddrs == {OfferPda(w, i) : w \in Wallets, i \in OfferIds}
VaultAddrs == {VaultPda(o, m) : o \in OfferAddrs, m \in Mints}
UserTokenAddrs == {UserToken(u, m) : u \in Users, m \in Mints}
TokenAddrs == UserTokenAddrs \cup VaultAddrs

\* An address that holds no account (owned by the system program, no data).
NoAccount == [exists |-> FALSE]

\* ------------------------------------------------------------------- state
VARIABLES
    profiles,   \* ProfileAddrs -> NoAccount or UserProfile
    offers,     \* OfferAddrs   -> NoAccount or Offer
    tokens,     \* TokenAddrs   -> NoAccount or TokenAccount
    lamports,   \* Wallets      -> the lamports the wallet holds
    last,       \* history: the transaction just executed and its result
    resolved,   \* history: offers on which accept_offer/cancel_offer succeeded
    issued,     \* history: per user, the offer ids create_offer has produced
    opened,     \* history: per Open offer, the maker's balance before create
    deposited   \* history: per vault, the amount transferred into it directly

vars == <<profiles, offers, tokens, lamports, last, resolved, issued, opened, deposited>>

\* The program-visible state as one value.
State ==
    [profiles |-> profiles, offers |-> offers, tokens |-> tokens,
     lamports |-> lamports]

UserProfile(authority, offer_count) ==
    [authority |-> authority, offer_count |-> offer_count]

\* An offer record with the two amounts in each other's place.
OfferAmountsSwapped(offer_id, maker, mint_offered, mint_wanted, amount_offered, amount_wanted, vault_bump, bump) ==
    [offer_id |-> offer_id, maker |-> maker,
     mint_offered |-> mint_offered, mint_wanted |-> mint_wanted,
     amount_offered |-> amount_wanted, amount_wanted |-> amount_offered,
     vault_bump |-> vault_bump, bump |-> bump]

Offer(offer_id, maker, mint_offered, mint_wanted, amount_offered, amount_wanted, vault_bump, bump) ==
    [offer_id |-> offer_id, maker |-> maker,
     mint_offered |-> mint_offered, mint_wanted |-> mint_wanted,
     amount_offered |-> amount_offered, amount_wanted |-> amount_wanted,
     vault_bump |-> vault_bump, bump |-> bump]

TokenAccount(mint, owner, amount) ==
    [mint |-> mint, owner |-> owner, amount |-> amount]

\* What a transaction returns: the error ("Ok" when it commits) and the state
\* it leaves.  A failed transaction leaves the state it started from.
Ok(st) == [err |-> "Ok", st |-> st]
Err(code, st) == [err |-> code, st |-> st]

\* --------------------------------------------------------- the token ledger
\* A transfer that debits the source and credits nothing.
token_transfer_debit_only(tk, from, to, authority, amount) ==
    IF tk[from] = NoAccount \/ tk[to] = NoAccount
    THEN [err |-> "AccountNotInitialized", tokens |-> tk]
    ELSE IF tk[from].amount < amount
    THEN [err |-> "InsufficientFunds", tokens |-> tk]
    ELSE [err |-> "Ok", tokens |-> [tk EXCEPT ![from].amount = @ - amount]]

\* A transfer that asks for no authority over the source.
token_transfer_any_authority(tk, from, to, authority, amount) ==
    IF tk[from] = NoAccount \/ tk[to] = NoAccount
    THEN [err |-> "AccountNotInitialized", tokens |-> tk]
    ELSE IF tk[from].amount < amount
    THEN [err |-> "InsufficientFunds", tokens |-> tk]
    ELSE IF tk[from].mint # tk[to].mint
    THEN [err |-> "MintMismatch", tokens |-> tk]
    ELSE IF from = to \/ amount = 0
    THEN [err |-> "Ok", tokens |-> tk]
    ELSE [err |-> "Ok",
          tokens |-> [tk EXCEPT ![from].amount = @ - amount,
                                ![to].amount = @ + amount]]

\* A transfer that does not ask whether the source holds the amount.
token_transfer_unfunded(tk, from, to, authority, amount) ==
    IF tk[from] = NoAccount \/ tk[to] = NoAccount
    THEN [err |-> "AccountNotInitialized", tokens |-> tk]
    ELSE IF tk[from].mint # tk[to].mint
    THEN [err |-> "MintMismatch", tokens |-> tk]
    ELSE IF tk[from].owner # authority
    THEN [err |-> "OwnerMismatch", tokens |-> tk]
    ELSE IF from = to \/ amount = 0
    THEN [err |-> "Ok", tokens |-> tk]
    ELSE [err |-> "Ok",
          tokens |-> [tk EXCEPT ![from].amount = @ - amount,
                                ![to].amount = @ + amount]]

\* spl_token transfer: the source must hold the amount, both accounts must be
\* of one mint, and the signing authority must be the source's owner.  A
\* transfer from an account to itself, or of zero, changes nothing.
token_transfer(tk, from, to, authority, amount) ==
    IF tk[from] = NoAccount \/ tk[to] = NoAccount
    THEN [err |-> "AccountNotInitialized", tokens |-> tk]
    ELSE IF tk[from].amount < amount
    THEN [err |-> "InsufficientFunds", tokens |-> tk]
    ELSE IF tk[from].mint # tk[to].mint
    THEN [err |-> "MintMismatch", tokens |-> tk]
    ELSE IF tk[from].owner # authority
    THEN [err |-> "OwnerMismatch", tokens |-> tk]
    ELSE IF from = to \/ amount = 0
    THEN [err |-> "Ok", tokens |-> tk]
    ELSE [err |-> "Ok",
          tokens |-> [tk EXCEPT ![from].amount = @ - amount,
                                ![to].amount = @ + amount]]

\* A close that does not ask whether the account is empty.
token_close_account_nonempty(tk, account, destination, authority) ==
    IF tk[account] = NoAccount
    THEN [err |-> "AccountNotInitialized", tokens |-> tk]
    ELSE IF account = destination
    THEN [err |-> "InvalidAccountData", tokens |-> tk]
    ELSE IF tk[account].owner # authority
    THEN [err |-> "OwnerMismatch", tokens |-> tk]
    ELSE [err |-> "Ok", tokens |-> [tk EXCEPT ![account] = NoAccount]]

\* spl_token close_account: only an empty account closes, and only by its
\* owner's authority; the account ceases to exist.
token_close_account(tk, account, destination, authority) ==
    IF tk[account] = NoAccount
    THEN [err |-> "AccountNotInitialized", tokens |-> tk]
    ELSE IF account = destination
    THEN [err |-> "InvalidAccountData", tokens |-> tk]
    ELSE IF tk[account].amount # 0
    THEN [err |-> "NonNativeHasBalance", tokens |-> tk]
    ELSE IF tk[account].owner # authority
    THEN [err |-> "OwnerMismatch", tokens |-> tk]
    ELSE [err |-> "Ok", tokens |-> [tk EXCEPT ![account] = NoAccount]]

\* ------------------------------------------------------- storage deposits
\* The rent-exempt deposit an account of each kind holds while it exists,
\* scaled down; the three differ so that one cannot pass for another.
ProfileRent == 1
OfferRent == 2
VaultRent == 3

\* What every wallet holds at the start: enough for the deposits of all the
\* accounts it can ever create.
InitialLamports == ProfileRent + U64Max * (OfferRent + VaultRent)

\* `init, payer = ..`: the payer funds the new account's deposit.
pay(lam, payer, amount) == [lam EXCEPT ![payer] = @ - amount]

\* A refund that credits nobody.
refund_nothing(lam, destination, amount) == lam

\* Closing an account hands the deposit it holds to the destination.
refund(lam, destination, amount) == [lam EXCEPT ![destination] = @ + amount]

\* u64::checked_add(1): None on overflow.
None == -1
\* An increment that wraps to zero at the maximum.
wrapping_add_1(n) == (n + 1) % (U64Max + 1)

checked_add_1(n) == IF n >= U64Max THEN None ELSE n + 1

\* --------------------------------------------------------- initialize_user
\* InitializeUser: `init` of the profile at its derived address fails when
\* the address is already in use.
\* An `init` that takes the address whether or not it is in use.
InitializeUserAccountsIfNeeded(st, authority) == "Ok"

InitializeUserAccounts(st, authority) ==
    IF st.profiles[ProfilePda(authority)] # NoAccount
    THEN "AccountAlreadyInUse"
    ELSE "Ok"

initialize_user(st, authority) ==
    LET v == InitializeUserAccounts(st, authority) IN
    IF v # "Ok" THEN Err(v, st)
    ELSE Ok([st EXCEPT !.profiles[ProfilePda(authority)] =
                            UserProfile(authority, 0),
                       !.lamports = pay(@, authority, ProfileRent)])

\* ------------------------------------------------------------ create_offer
\* The accounts a create_offer transaction names.  offer and vault are the
\* addresses `init` derives, so they are not inputs.
CreateArgs(maker, user_profile, authority, mint_offered, mint_wanted, maker_token_account, amount_offered, amount_wanted) ==
    [maker |-> maker, user_profile |-> user_profile, authority |-> authority,
     mint_offered |-> mint_offered, mint_wanted |-> mint_wanted,
     maker_token_account |-> maker_token_account,
     amount_offered |-> amount_offered, amount_wanted |-> amount_wanted]

\* Loading the non-init accounts: user_profile and maker_token_account must
\* exist.
CreateOfferLoad(st, a) ==
    IF st.profiles[a.user_profile] = NoAccount THEN "AccountNotInitialized"
    ELSE IF st.tokens[a.maker_token_account] = NoAccount
    THEN "AccountNotInitialized"
    ELSE "Ok"

\* The address `init` gives the new offer: derived from the maker and the
\* offer_count read from the supplied user_profile.
CreateOfferAddr(st, a) ==
    OfferPda(a.maker, st.profiles[a.user_profile].offer_count)

\* `init` of offer and vault: both fail on an address already in use.
CreateOfferInit(st, a) ==
    LET offer == CreateOfferAddr(st, a)
        vault == VaultPda(offer, a.mint_offered)
    IN  IF st.offers[offer] # NoAccount THEN "AccountAlreadyInUse"
        ELSE IF st.tokens[vault] # NoAccount THEN "AccountAlreadyInUse"
        ELSE "Ok"

\* user_profile checked against the authority named only, not the seeds.
CreateOfferProfileHasOneOnly(st, a) ==
    IF st.profiles[a.user_profile].authority # a.authority
    THEN "Unauthorized"
    ELSE "Ok"

\* The constraints of user_profile: seeds, then has_one = authority.
CreateOfferProfile(st, a) ==
    IF a.user_profile # ProfilePda(a.maker) THEN "ConstraintSeeds"
    ELSE IF st.profiles[a.user_profile].authority # a.authority
    THEN "Unauthorized"
    ELSE "Ok"

\* The constraints of maker_token_account.
CreateOfferMakerToken(st, a) ==
    LET mta == st.tokens[a.maker_token_account] IN
    IF mta.mint # a.mint_offered THEN "InvalidMint"
    ELSE IF mta.owner # a.maker THEN "Unauthorized"
    ELSE "Ok"

\* Account validation: the accounts are loaded, the init accounts created,
\* then the constraints of the others checked in field order.
CreateOfferAccounts(st, a) ==
    LET load == CreateOfferLoad(st, a) IN
    IF load # "Ok" THEN load
    ELSE IF CreateOfferInit(st, a) # "Ok" THEN CreateOfferInit(st, a)
    ELSE IF CreateOfferProfile(st, a) # "Ok" THEN CreateOfferProfile(st, a)
    ELSE CreateOfferMakerToken(st, a)

\* Only amount_offered is required to be positive.
CreateOfferAmountsOfferedOnly(a) ==
    IF ~(a.amount_offered > 0) THEN "InvalidAmount" ELSE "Ok"

\* require!(amount_offered > 0) and require!(amount_wanted > 0).
CreateOfferAmounts(a) ==
    IF ~(a.amount_offered > 0) THEN "InvalidAmount"
    ELSE IF ~(a.amount_wanted > 0) THEN "InvalidAmount"
    ELSE "Ok"

create_offer(st, a) ==
    LET v == CreateOfferAccounts(st, a)
        offer == CreateOfferAddr(st, a)
        vault == VaultPda(offer, a.mint_offered)
        offer_id == st.profiles[a.user_profile].offer_count
        next == checked_add_1(offer_id)
        \* the vault as `init` leaves it: empty, its own authority
        tk0 == [st.tokens EXCEPT ![vault] =
                    TokenAccount(a.mint_offered, vault, 0)]
        t == token_transfer(tk0, a.maker_token_account, vault, a.maker,
                            a.amount_offered)
    IN  IF v # "Ok" THEN Err(v, st)
        ELSE IF CreateOfferAmounts(a) # "Ok"
        THEN Err(CreateOfferAmounts(a), st)
        ELSE IF next = None THEN Err("CounterOverflow", st)
        ELSE IF t.err # "Ok" THEN Err(t.err, st)
        ELSE Ok([profiles |-> [st.profiles EXCEPT
                                  ![a.user_profile].offer_count = next],
                 offers |-> [st.offers EXCEPT ![offer] =
                                Offer(offer_id, a.maker, a.mint_offered,
                                      a.mint_wanted, a.amount_offered,
                                      a.amount_wanted, CanonicalBump(vault),
                                      CanonicalBump(offer))],
                 tokens |-> t.tokens,
                 lamports |-> pay(st.lamports, a.maker,
                                  OfferRent + VaultRent)])

\* ------------------------------------------------------------ accept_offer
\* The accounts and the instruction argument an accept_offer transaction
\* names; the taker signs.
AcceptArgs(taker, maker, offer, offer_id, vault, mint_offered, mint_wanted, maker_token_account_wanted, taker_token_account_wanted, taker_token_account_offered) ==
    [taker |-> taker, maker |-> maker, offer |-> offer, offer_id |-> offer_id,
     vault |-> vault, mint_offered |-> mint_offered,
     mint_wanted |-> mint_wanted,
     maker_token_account_wanted |-> maker_token_account_wanted,
     taker_token_account_wanted |-> taker_token_account_wanted,
     taker_token_account_offered |-> taker_token_account_offered]

\* Loading the accounts, in field order: each must exist.
AcceptOfferLoad(st, a) ==
    IF st.offers[a.offer] = NoAccount THEN "AccountNotInitialized"
    ELSE IF st.tokens[a.vault] = NoAccount THEN "AccountNotInitialized"
    ELSE IF st.tokens[a.maker_token_account_wanted] = NoAccount
    THEN "AccountNotInitialized"
    ELSE IF st.tokens[a.taker_token_account_wanted] = NoAccount
    THEN "AccountNotInitialized"
    ELSE IF st.tokens[a.taker_token_account_offered] = NoAccount
    THEN "AccountNotInitialized"
    ELSE "Ok"

\* The constraints of offer: seeds with the stored bump, then has_one.
AcceptOfferOffer(st, a) ==
    LET offer == st.offers[a.offer] IN
    IF a.offer # OfferPda(a.maker, a.offer_id)
       \/ offer.bump # CanonicalBump(a.offer)
    THEN "ConstraintSeeds"
    ELSE IF offer.maker # a.maker THEN "Unauthorized"
    ELSE "Ok"

\* The constraints of vault: seeds with the stored vault_bump.
AcceptOfferVault(st, a) ==
    IF a.vault # VaultPda(a.offer, a.mint_offered)
       \/ st.offers[a.offer].vault_bump # CanonicalBump(a.vault)
    THEN "ConstraintSeeds"
    ELSE "Ok"

\* maker_token_account_wanted checked for its mint only.
AcceptOfferMakerWantedMintOnly(st, a) ==
    IF st.tokens[a.maker_token_account_wanted].mint
         # st.offers[a.offer].mint_wanted
    THEN "InvalidMint"
    ELSE "Ok"

\* The constraints of maker_token_account_wanted.
AcceptOfferMakerWanted(st, a) ==
    LET offer == st.offers[a.offer]
        acct == st.tokens[a.maker_token_account_wanted]
    IN  IF acct.mint # offer.mint_wanted THEN "InvalidMint"
        ELSE IF acct.owner # a.maker THEN "Unauthorized"
        ELSE "Ok"

\* The constraints of taker_token_account_wanted (receives the offered asset).
AcceptOfferTakerWanted(st, a) ==
    LET offer == st.offers[a.offer]
        acct == st.tokens[a.taker_token_account_wanted]
    IN  IF acct.mint # offer.mint_offered THEN "InvalidMint"
        ELSE IF acct.owner # a.taker THEN "Unauthorized"
        ELSE "Ok"

\* The constraints of taker_token_account_offered (pays the wanted asset).
AcceptOfferTakerOffered(st, a) ==
    LET offer == st.offers[a.offer]
        acct == st.tokens[a.taker_token_account_offered]
    IN  IF acct.mint # offer.mint_wanted THEN "InvalidMint"
        ELSE IF acct.owner # a.taker THEN "Unauthorized"
        ELSE "Ok"

AcceptOfferAccounts(st, a) ==
    LET load == AcceptOfferLoad(st, a) IN
    IF load # "Ok" THEN load
    ELSE IF AcceptOfferOffer(st, a) # "Ok" THEN AcceptOfferOffer(st, a)
    ELSE IF AcceptOfferVault(st, a) # "Ok" THEN AcceptOfferVault(st, a)
    ELSE IF AcceptOfferMakerWanted(st, a) # "Ok"
    THEN AcceptOfferMakerWanted(st, a)
    ELSE IF AcceptOfferTakerWanted(st, a) # "Ok"
    THEN AcceptOfferTakerWanted(st, a)
    ELSE AcceptOfferTakerOffered(st, a)

\* The account the program signs for with the seeds
\* [b"vault", offer.key(), offer.mint_offered, offer.vault_bump].
VaultSigner(st, offer) == VaultPda(offer, st.offers[offer].mint_offered)

\* A CPI whose authority is the vault: the token program sees the vault as a
\* signer only when it is the address the signer seeds derive.
vault_transfer(st, offer, tk, vault, to, amount) ==
    IF vault # VaultSigner(st, offer)
    THEN [err |-> "MissingRequiredSignature", tokens |-> tk]
    ELSE token_transfer(tk, vault, to, vault, amount)

\* A close that reports success and leaves the vault standing.
vault_close_keeps(st, offer, tk, vault, destination) ==
    [err |-> "Ok", tokens |-> tk]

vault_close(st, offer, tk, vault, destination) ==
    IF vault # VaultSigner(st, offer)
    THEN [err |-> "MissingRequiredSignature", tokens |-> tk]
    ELSE token_close_account(tk, vault, destination, vault)

\* A close that leaves the record in place (what `close = maker` rules out).
close_offer_keeps(offs, offer) == offs

\* `close = maker` at exit: the offer record ceases to exist.
close_offer(offs, offer) == [offs EXCEPT ![offer] = NoAccount]

\* An accept that takes the taker's payment and leaves the escrow standing.
accept_offer_payment_only(st, a) ==
    LET v == AcceptOfferAccounts(st, a)
        offer == st.offers[a.offer]
        t1 == token_transfer(st.tokens, a.taker_token_account_offered,
                             a.maker_token_account_wanted, a.taker,
                             offer.amount_wanted)
    IN  IF v # "Ok" THEN Err(v, st)
        ELSE IF a.mint_offered # offer.mint_offered THEN Err("InvalidMint", st)
        ELSE IF a.mint_wanted # offer.mint_wanted THEN Err("InvalidMint", st)
        ELSE IF t1.err # "Ok" THEN Err(t1.err, st)
        ELSE Ok([st EXCEPT !.tokens = t1.tokens])

accept_offer(st, a) ==
    LET v == AcceptOfferAccounts(st, a)
        offer == st.offers[a.offer]
        t1 == token_transfer(st.tokens, a.taker_token_account_offered,
                             a.maker_token_account_wanted, a.taker,
                             offer.amount_wanted)
        t2 == vault_transfer(st, a.offer, t1.tokens, a.vault,
                             a.taker_token_account_wanted,
                             offer.amount_offered)
        t3 == vault_close(st, a.offer, t2.tokens, a.vault, a.maker)
    IN  IF v # "Ok" THEN Err(v, st)
        ELSE IF a.mint_offered # offer.mint_offered THEN Err("InvalidMint", st)
        ELSE IF a.mint_wanted # offer.mint_wanted THEN Err("InvalidMint", st)
        ELSE IF t1.err # "Ok" THEN Err(t1.err, st)
        ELSE IF t2.err # "Ok" THEN Err(t2.err, st)
        ELSE IF t3.err # "Ok" THEN Err(t3.err, st)
        ELSE Ok([profiles |-> st.profiles,
                 offers |-> close_offer(st.offers, a.offer),
                 tokens |-> t3.tokens,
                 lamports |-> refund(refund(st.lamports, a.maker, VaultRent),
                                     a.maker, OfferRent)])

\* ------------------------------------------------------------ cancel_offer
\* The accounts and the instruction argument a cancel_offer transaction
\* names; the maker signs.
CancelArgs(maker, offer, offer_id, vault, mint_offered, maker_token_account) ==
    [maker |-> maker, offer |-> offer, offer_id |-> offer_id, vault |-> vault,
     mint_offered |-> mint_offered,
     maker_token_account |-> maker_token_account]

CancelOfferLoad(st, a) ==
    IF st.offers[a.offer] = NoAccount THEN "AccountNotInitialized"
    ELSE IF st.tokens[a.vault] = NoAccount THEN "AccountNotInitialized"
    ELSE IF st.tokens[a.maker_token_account] = NoAccount
    THEN "AccountNotInitialized"
    ELSE "Ok"

\* The offer account taken as given, whoever the caller is.
CancelOfferOfferUnchecked(st, a) == "Ok"

\* The constraints of offer: seeds with the stored bump, then has_one.
CancelOfferOffer(st, a) ==
    LET offer == st.offers[a.offer] IN
    IF a.offer # OfferPda(a.maker, a.offer_id)
       \/ offer.bump # CanonicalBump(a.offer)
    THEN "ConstraintSeeds"
    ELSE IF offer.maker # a.maker THEN "Unauthorized"
    ELSE "Ok"

CancelOfferVault(st, a) ==
    IF a.vault # VaultPda(a.offer, a.mint_offered)
       \/ st.offers[a.offer].vault_bump # CanonicalBump(a.vault)
    THEN "ConstraintSeeds"
    ELSE "Ok"

\* maker_token_account checked for its mint only.
CancelOfferMakerTokenMintOnly(st, a) ==
    IF st.tokens[a.maker_token_account].mint # st.offers[a.offer].mint_offered
    THEN "InvalidMint"
    ELSE "Ok"

\* The constraints of maker_token_account.
CancelOfferMakerToken(st, a) ==
    LET offer == st.offers[a.offer]
        acct == st.tokens[a.maker_token_account]
    IN  IF acct.mint # offer.mint_offered THEN "InvalidMint"
        ELSE IF acct.owner # a.maker THEN "Unauthorized"
        ELSE "Ok"

CancelOfferAccounts(st, a) ==
    LET load == CancelOfferLoad(st, a) IN
    IF load # "Ok" THEN load
    ELSE IF CancelOfferOffer(st, a) # "Ok" THEN CancelOfferOffer(st, a)
    ELSE IF CancelOfferVault(st, a) # "Ok" THEN CancelOfferVault(st, a)
    ELSE CancelOfferMakerToken(st, a)

cancel_offer(st, a) ==
    LET v == CancelOfferAccounts(st, a)
        offer == st.offers[a.offer]
        t1 == vault_transfer(st, a.offer, st.tokens, a.vault,
                             a.maker_token_account, offer.amount_offered)
        t2 == vault_close(st, a.offer, t1.tokens, a.vault, a.maker)
    IN  IF v # "Ok" THEN Err(v, st)
        ELSE IF t1.err # "Ok" THEN Err(t1.err, st)
        ELSE IF t2.err # "Ok" THEN Err(t2.err, st)
        ELSE Ok([profiles |-> st.profiles,
                 offers |-> close_offer(st.offers, a.offer),
                 tokens |-> t2.tokens,
                 lamports |-> refund(refund(st.lamports, a.maker, VaultRent),
                                     a.maker, OfferRent)])

\* ------------------------------------------------- direct ledger transfers
\* The token program serves every holder, not only this program: the owner
\* of a token account may transfer from it to any token account of the same
\* mint, a vault included.  A vault's owner is the vault itself, an address
\* with no private key, so no wallet can sign for it.
direct_transfer(st, signer, from, to, amount) ==
    LET t == token_transfer(st.tokens, from, to, signer, amount) IN
    IF t.err # "Ok" THEN Err(t.err, st)
    ELSE Ok([st EXCEPT !.tokens = t.tokens])

\* ----------------------------------------------------------------- history
NoKey == <<"none", "-", 0, "-">>
NoGhost == [open |-> FALSE]

\* What user `wallet` holds of `mint`: the amount of the wallet's token
\* account for that mint.
UserBalance(tk, wallet, mint) == tk[UserToken(wallet[2], mint)].amount

\* An offer is Open while its record exists.
IsOpen(st, offer) == st.offers[offer] # NoAccount

\* Per Open offer: the record as create_offer wrote it, the maker's balance
\* of the offered asset just before that create_offer, and whether any later
\* transaction has changed that balance.
OpenedAfter(st, new) ==
    [o \in OfferAddrs |->
        IF ~IsOpen(new, o) THEN NoGhost
        ELSE IF ~IsOpen(st, o)
        THEN [open |-> TRUE,
              record |-> new.offers[o],
              pre |-> UserBalance(st.tokens, new.offers[o].maker,
                                  new.offers[o].mint_offered),
              clean |-> TRUE]
        ELSE [opened[o] EXCEPT !.clean =
                @ /\ UserBalance(new.tokens, st.offers[o].maker,
                                 st.offers[o].mint_offered)
                     = UserBalance(st.tokens, st.offers[o].maker,
                                   st.offers[o].mint_offered)]]

\* A transaction that commits: the state becomes the one it returns and the
\* history variables record it.  A transaction that fails is no step: every
\* effect is discarded and nothing changes.
Commit(op, signer, offer, r) ==
    /\ r.err = "Ok"
    /\ profiles' = r.st.profiles
    /\ offers' = r.st.offers
    /\ tokens' = r.st.tokens
    /\ lamports' = r.st.lamports
    /\ last' = [op |-> op, signer |-> signer, offer |-> offer]
    /\ resolved' = IF op \in {"accept_offer", "cancel_offer"}
                   THEN resolved \cup {offer} ELSE resolved
    /\ issued' = IF op = "create_offer"
                 THEN [issued EXCEPT ![signer] = Append(@, offer[3])]
                 ELSE issued
    /\ opened' = OpenedAfter(State, r.st)

\* ------------------------------------------------------------------ actions
\* What the users hold at the start: alice 2 units of A, bob 1 unit of B.
InitialBalance(u, m) ==
    IF u = "alice" /\ m = "A" THEN 2
    ELSE IF u = "bob" /\ m = "B" THEN 1
    ELSE 0

Init ==
    /\ profiles = [p \in ProfileAddrs |-> NoAccount]
    /\ offers = [o \in OfferAddrs |-> NoAccount]
    /\ tokens = [t \in TokenAddrs |->
                    IF t \in VaultAddrs THEN NoAccount
                    ELSE TokenAccount(t[4], Wallet(t[2]),
                                      InitialBalance(t[2], t[4]))]
    /\ lamports = [w \in Wallets |-> InitialLamports]
    /\ last = [op |-> "none", signer |-> NoKey, offer |-> NoKey]
    /\ resolved = {}
    /\ issued = [w \in Wallets |-> <<>>]
    /\ opened = [o \in OfferAddrs |-> NoGhost]
    /\ deposited = [v \in VaultAddrs |-> 0]

\* Each action draws a transaction's accounts and arguments and commits what
\* the instruction returns.  The guards between the quantifiers are the
\* instruction's own checks, made again when it runs: they only spare drawing
\* the remaining inputs of a transaction that has already failed.  Token
\* accounts are drawn from the users' accounts and the vault the transaction
\* names (create_offer, which names none yet, draws from all that exist).
AnyMint == CHOOSE m \in Mints : TRUE
AnyToken == CHOOSE t \in UserTokenAddrs : TRUE

InitializeUser ==
    \E authority \in Wallets :
        /\ Commit("initialize_user", authority, NoKey,
                  initialize_user(State, authority))
        /\ UNCHANGED deposited

CreateOffer ==
    \E maker \in Wallets, user_profile \in ProfileAddrs,
       authority \in Wallets :
        LET a0 == CreateArgs(maker, user_profile, authority, AnyMint, AnyMint,
                             AnyToken, 1, 1)
        IN
        /\ CreateOfferLoad(State, a0) = "Ok"
        /\ CreateOfferProfile(State, a0) = "Ok"
        /\ \E mint_offered \in Mints, maker_token_account \in TokenAddrs :
            LET a1 == [a0 EXCEPT !.mint_offered = mint_offered,
                         !.maker_token_account = maker_token_account]
            IN
            /\ CreateOfferAccounts(State, a1) = "Ok"
            /\ \E mint_wanted \in Mints, amount_offered \in Amounts,
                  amount_wanted \in Amounts :
                LET a == [a1 EXCEPT !.mint_wanted = mint_wanted,
                            !.amount_offered = amount_offered,
                            !.amount_wanted = amount_wanted]
                IN  /\ Commit("create_offer", maker, CreateOfferAddr(State, a),
                              create_offer(State, a))
                    /\ UNCHANGED deposited

AcceptOffer ==
    \E offer \in OfferAddrs, vault \in VaultAddrs :
        /\ offers[offer] # NoAccount
        /\ tokens[vault] # NoAccount
        /\ \E maker \in Wallets, offer_id \in OfferIds,
              mint_offered \in Mints :
            LET a1 == AcceptArgs(maker, maker, offer, offer_id, vault,
                                 mint_offered, AnyMint, AnyToken, AnyToken,
                                 AnyToken)
            IN
            /\ AcceptOfferOffer(State, a1) = "Ok"
            /\ AcceptOfferVault(State, a1) = "Ok"
            /\ \E mtaw \in UserTokenAddrs \cup {vault} :
                LET a2 == [a1 EXCEPT !.maker_token_account_wanted = mtaw] IN
                /\ AcceptOfferMakerWanted(State, a2) = "Ok"
                /\ \E taker \in Wallets, ttaw \in UserTokenAddrs \cup {vault} :
                    LET a3 == [a2 EXCEPT !.taker = taker,
                                 !.taker_token_account_wanted = ttaw] IN
                    /\ AcceptOfferTakerWanted(State, a3) = "Ok"
                    /\ \E ttao \in UserTokenAddrs \cup {vault},
                          mint_wanted \in Mints :
                        /\ Commit("accept_offer", taker, offer,
                               accept_offer(State, [a3 EXCEPT
                                   !.taker_token_account_offered = ttao,
                                   !.mint_wanted = mint_wanted]))
                        /\ UNCHANGED deposited

CancelOffer ==
    \E offer \in OfferAddrs, vault \in VaultAddrs :
        /\ offers[offer] # NoAccount
        /\ tokens[vault] # NoAccount
        /\ \E maker \in Wallets, offer_id \in OfferIds,
              mint_offered \in Mints :
            LET a1 == CancelArgs(maker, offer, offer_id, vault, mint_offered,
                                 AnyToken)
            IN
            /\ CancelOfferOffer(State, a1) = "Ok"
            /\ CancelOfferVault(State, a1) = "Ok"
            /\ \E maker_token_account \in UserTokenAddrs \cup {vault} :
                /\ Commit("cancel_offer", maker, offer,
                       cancel_offer(State, [a1 EXCEPT
                           !.maker_token_account = maker_token_account]))
                /\ UNCHANGED deposited

\* Of the direct transfers, those into or out of a vault are drawn: a
\* transfer between two user accounts only moves what the users hold.
DirectTransfer ==
    \E signer \in Wallets, vault \in VaultAddrs :
        /\ tokens[vault] # NoAccount
        /\ \E other \in UserTokenAddrs \cup {vault}, into \in BOOLEAN,
              amount \in 1..MaxAmount :
            LET from == IF into THEN other ELSE vault
                to == IF into THEN vault ELSE other
            IN
            /\ Commit("direct_transfer", signer, NoKey,
                      direct_transfer(State, signer, from, to, amount))
            /\ deposited' = IF to \in VaultAddrs /\ from # to
                            THEN [deposited EXCEPT ![to] = @ + amount]
                            ELSE deposited

Next ==
    \/ InitializeUser
    \/ CreateOffer
    \/ AcceptOffer
    \/ CancelOffer
    \/ DirectTransfer

Spec == Init /\ [][Next]_vars

\* ============================================================== properties
\* The transactions the properties range over.  Token accounts are the users'
\* accounts and the token accounts that exist at the offer's vault addresses.
TokenInputs(offer) ==
    UserTokenAddrs
        \cup {v \in {VaultPda(offer, m) : m \in Mints} : tokens[v] # NoAccount}

\* Every accept_offer that names the offer of (maker, offer_id).
AcceptCalls(maker, offer_id) ==
    LET offer == OfferPda(maker, offer_id) IN
    [taker : Wallets, maker : {maker}, offer : {offer},
     offer_id : {offer_id}, vault : {VaultPda(offer, m) : m \in Mints},
     mint_offered : Mints, mint_wanted : Mints,
     maker_token_account_wanted : TokenInputs(offer),
     taker_token_account_wanted : TokenInputs(offer),
     taker_token_account_offered : TokenInputs(offer)]

\* Every cancel_offer by `caller` on the offer account `offer`.
CancelCalls(caller, offer) ==
    [maker : {caller}, offer : {offer}, offer_id : OfferIds,
     vault : {VaultPda(offer, m) : m \in Mints}, mint_offered : Mints,
     maker_token_account : TokenInputs(offer)]

\* Every create_offer on the profile account `user_profile`, with a token
\* account that exists.
CreateCalls(user_profile) ==
    [maker : Wallets, user_profile : {user_profile}, authority : Wallets,
     mint_offered : Mints, mint_wanted : Mints,
     maker_token_account : {t \in TokenAddrs : tokens[t] # NoAccount},
     amount_offered : Amounts, amount_wanted : Amounts]

OfferMaker(offer) == Wallet(offer[2])
OfferId(offer) == offer[3]

\* A transaction that is rejected: it reports an error and the state it
\* leaves is the state it found.
Rejected(r, st) == r.err # "Ok" /\ r.st = st

OpenOffers == {k \in OfferAddrs : IsOpen(State, k)}

\* The accepts of Open offer k whose token accounts each pass the account's
\* own constraints: a transaction with any other account is rejected by that
\* constraint.
AcceptCandidates(k) ==
    LET maker == OfferMaker(k)
        calls(taker, vault, mint_offered) ==
            LET a0 == AcceptArgs(taker, maker, k, OfferId(k), vault,
                                 mint_offered, AnyMint, AnyToken, AnyToken,
                                 AnyToken)
            IN  [taker : {taker}, maker : {maker}, offer : {k},
                 offer_id : {OfferId(k)}, vault : {vault},
                 mint_offered : {mint_offered}, mint_wanted : Mints,
                 maker_token_account_wanted :
                    {t \in TokenInputs(k) : AcceptOfferMakerWanted(State,
                        [a0 EXCEPT !.maker_token_account_wanted = t]) = "Ok"},
                 taker_token_account_wanted :
                    {t \in TokenInputs(k) : AcceptOfferTakerWanted(State,
                        [a0 EXCEPT !.taker_token_account_wanted = t]) = "Ok"},
                 taker_token_account_offered :
                    {t \in TokenInputs(k) : AcceptOfferTakerOffered(State,
                        [a0 EXCEPT !.taker_token_account_offered = t]) = "Ok"}]
    IN  UNION {calls(taker, vault, mint_offered) :
                 taker \in Wallets,
                 vault \in {VaultPda(k, m) : m \in Mints},
                 mint_offered \in Mints}

\* The accepts of Open offer k that commit in the current state.
SuccessfulAccepts(k) ==
    {a \in AcceptCandidates(k) : accept_offer(State, a).err = "Ok"}

\* The maker's cancels of offer k that commit in the current state.
SuccessfulCancels(k) ==
    {c \in CancelCalls(OfferMaker(k), k) : cancel_offer(State, c).err = "Ok"}

\* C1. Terminality: an offer on which accept_offer or cancel_offer has
\* succeeded is never Open again, and every later accept_offer or
\* cancel_offer naming its (maker, offer_id) fails and changes nothing.
Terminality ==
    \A k \in resolved :
        /\ offers[k] = NoAccount
        /\ \A a \in AcceptCalls(OfferMaker(k), OfferId(k)) :
              Rejected(accept_offer(State, a), State)
        /\ \A c \in CancelCalls(OfferMaker(k), k) :
              Rejected(cancel_offer(State, c), State)

\* C1 witness: one offer has been settled or cancelled, a second one too, and
\* the maker of a resolved offer has since created a further offer.
TerminalityReached ==
    /\ last.op = "create_offer"
    /\ \E k \in resolved : OfferMaker(k) = last.signer /\ k # last.offer
    /\ Cardinality(resolved) >= 2

\* C2. Accept/cancel race: when an accept_offer and the maker's cancel_offer
\* of one Open offer would each commit on its own, then in either order the
\* first commits and the second is rejected, so the final state is the one
\* the first alone produces.
AcceptCancelRace ==
    \A k \in OpenOffers :
        \A a \in SuccessfulAccepts(k), c \in SuccessfulCancels(k) :
            LET ra == accept_offer(State, a)
                rc == cancel_offer(State, c)
            IN  /\ Rejected(cancel_offer(ra.st, c), ra.st)
                /\ Rejected(accept_offer(rc.st, a), rc.st)

\* C2 witness: an Open offer that a taker other than the maker can accept
\* and the maker can cancel, the second of the two being turned away because
\* the offer record is gone.
AcceptCancelRaceReached ==
    \E k \in OpenOffers :
        \E a \in SuccessfulAccepts(k), c \in SuccessfulCancels(k) :
            /\ a.taker # c.maker
            /\ cancel_offer(accept_offer(State, a).st, c).err
                 = "AccountNotInitialized"
            /\ accept_offer(cancel_offer(State, c).st, a).err
                 = "AccountNotInitialized"

\* What an accept of offer k by `taker` adds to what user u holds of mint m:
\* the taker pays amount_wanted of mint_wanted, the maker receives it, and
\* the taker receives amount_offered of mint_offered.  The three parts fall
\* on one balance when the taker is the maker or the two mints are one.
AcceptDelta(k, taker, u, m) ==
    LET o == offers[k] IN
      (IF u = taker /\ m = o.mint_wanted THEN 0 - o.amount_wanted ELSE 0)
    + (IF u = o.maker /\ m = o.mint_wanted THEN o.amount_wanted ELSE 0)
    + (IF u = taker /\ m = o.mint_offered THEN o.amount_offered ELSE 0)

\* C3 (amended). Every successful accept_offer changes what each user holds
\* of each mint by the sum of the parts that fall on it (taker -amount_wanted
\* of mint_wanted, maker +amount_wanted of mint_wanted, taker +amount_offered
\* of mint_offered); the vault held exactly amount_offered, and neither the
\* vault nor the offer record exists afterwards.
AcceptEffects ==
    \A k \in OpenOffers :
        \A a \in SuccessfulAccepts(k) :
            LET r == accept_offer(State, a).st IN
            /\ \A u \in Wallets, m \in Mints :
                  UserBalance(r.tokens, u, m)
                    = UserBalance(tokens, u, m) + AcceptDelta(k, a.taker, u, m)
            /\ tokens[a.vault].amount = offers[k].amount_offered
            /\ r.tokens[a.vault] = NoAccount
            /\ r.offers[k] = NoAccount

\* C3 witness: an accept_offer has just committed in which the taker was
\* the offer's own maker.
AcceptEffectsReached ==
    /\ last.op = "accept_offer"
    /\ last.signer = OfferMaker(last.offer)
    /\ last.offer \in resolved

\* C3 as stated: each of the three balances moves by its own amount.
AcceptEffectsAsStated ==
    \A k \in OpenOffers :
        \A a \in SuccessfulAccepts(k) :
            LET r == accept_offer(State, a).st
                o == offers[k]
            IN
            /\ UserBalance(r.tokens, a.taker, o.mint_wanted)
                 = UserBalance(tokens, a.taker, o.mint_wanted) - o.amount_wanted
            /\ UserBalance(r.tokens, o.maker, o.mint_wanted)
                 = UserBalance(tokens, o.maker, o.mint_wanted) + o.amount_wanted
            /\ UserBalance(r.tokens, a.taker, o.mint_offered)
                 = UserBalance(tokens, a.taker, o.mint_offered)
                   + o.amount_offered
            /\ r.tokens[a.vault] = NoAccount
            /\ r.offers[k] = NoAccount

\* C4. Every successful cancel_offer destroys the offer record, and when no
\* transaction since the create_offer that opened the offer has changed what
\* the maker holds of mint_offered, the maker holds again what they held
\* just before that create_offer.
CancelRestores ==
    \A k \in OpenOffers :
        \A c \in SuccessfulCancels(k) :
            LET r == cancel_offer(State, c).st IN
            /\ r.offers[k] = NoAccount
            /\ opened[k].clean =>
                  UserBalance(r.tokens, offers[k].maker, offers[k].mint_offered)
                    = opened[k].pre

\* C4 witness: an offer that escrowed everything its maker held of
\* mint_offered is Open and untouched, and the maker's cancel of it commits.
CancelRestoresReached ==
    \E k \in OpenOffers :
        /\ opened[k].clean
        /\ opened[k].pre = offers[k].amount_offered
        /\ opened[k].pre = MaxAmount
        /\ SuccessfulCancels(k) # {}

\* The vault of Open offer k.
OfferVault(k) == VaultPda(k, offers[k].mint_offered)

\* C5. Every create_offer that succeeds had both amounts positive, takes
\* exactly amount_offered of mint_offered from the maker and leaves exactly
\* amount_offered in the new vault; every create_offer with a zero amount
\* is rejected, changing no balance, offer, vault or offer_count, and the
\* error is InvalidAmount whenever the accounts it names pass validation.
CreateOfferEffects ==
    \A p \in ProfileAddrs :
        \A a \in CreateCalls(p) :
            LET r == create_offer(State, a) IN
            /\ r.err = "Ok" =>
                  /\ a.amount_offered > 0 /\ a.amount_wanted > 0
                  /\ UserBalance(r.st.tokens, a.maker, a.mint_offered)
                       = UserBalance(tokens, a.maker, a.mint_offered)
                         - a.amount_offered
                  /\ r.st.tokens[VaultPda(CreateOfferAddr(State, a),
                                          a.mint_offered)].amount
                       = a.amount_offered
            /\ (a.amount_offered = 0 \/ a.amount_wanted = 0) =>
                  /\ Rejected(r, State)
                  /\ CreateOfferAccounts(State, a) = "Ok"
                        => r.err = "InvalidAmount"

\* C5 witness: a create_offer has just escrowed the largest amount, and in
\* the state it left a create_offer asking for nothing in return is turned
\* away with InvalidAmount.
CreateOfferEffectsReached ==
    /\ last.op = "create_offer"
    /\ IsOpen(State, last.offer)
    /\ tokens[OfferVault(last.offer)].amount = MaxAmount
    /\ \E a \in CreateCalls(ProfilePda(last.signer)) :
          /\ a.amount_offered > 0
          /\ a.amount_wanted = 0
          /\ create_offer(State, a).err = "InvalidAmount"

\* C6 (amended). For every Open offer the vault exists and holds the
\* offer's amount_offered plus whatever has been transferred into it
\* directly since the offer was created.
EscrowHoldsOfferedPlusDeposits ==
    \A k \in OpenOffers :
        /\ tokens[OfferVault(k)] # NoAccount
        /\ tokens[OfferVault(k)].mint = offers[k].mint_offered
        /\ tokens[OfferVault(k)].amount
             = offers[k].amount_offered + deposited[OfferVault(k)]

\* C6 witness: a direct transfer has just put funds into the vault of an
\* Open offer.
EscrowHoldsOfferedPlusDepositsReached ==
    /\ last.op = "direct_transfer"
    /\ \E k \in OpenOffers :
          /\ deposited[OfferVault(k)] > 0
          /\ tokens[OfferVault(k)].amount > offers[k].amount_offered

\* C6 as stated: the vault of every Open offer holds exactly amount_offered.
EscrowHoldsExactlyOffered ==
    \A k \in OpenOffers :
        /\ tokens[OfferVault(k)] # NoAccount
        /\ tokens[OfferVault(k)].amount = offers[k].amount_offered

\* The cancel_offer the maker of Open offer k submits: the offer's own
\* accounts, and the maker's token account of mint_offered to receive.
MakerCancel(k) ==
    CancelArgs(offers[k].maker, k, offers[k].offer_id, OfferVault(k),
               offers[k].mint_offered,
               UserToken(offers[k].maker[2], offers[k].mint_offered))

\* C7 as stated: in every state, the maker's cancel_offer of every Open
\* offer succeeds.
MakerCanAlwaysCancel ==
    \A k \in OpenOffers : cancel_offer(State, MakerCancel(k)).err = "Ok"

\* C8. Only the maker can cancel: every cancel_offer of an Open offer whose
\* caller is not the maker recorded on it is rejected and changes nothing.
OnlyMakerCancels ==
    \A k \in OpenOffers :
        \A caller \in Wallets \ {offers[k].maker} :
            \A c \in CancelCalls(caller, k) :
                Rejected(cancel_offer(State, c), State)

\* C8 witness: an Open offer whose vault exists, and a cancel_offer of it by
\* another user, naming that user's own token account, that is turned away.
OnlyMakerCancelsReached ==
    \E k \in OpenOffers :
        \E caller \in Wallets \ {offers[k].maker} :
            \E c \in CancelCalls(caller, k) :
                /\ c.vault = OfferVault(k)
                /\ c.mint_offered = offers[k].mint_offered
                /\ c.maker_token_account
                     = UserToken(caller[2], offers[k].mint_offered)
                /\ cancel_offer(State, c).err = "ConstraintSeeds"

\* C9. Vault custody: a step in which a vault's balance goes down, or in
\* which a vault ceases to exist, is a successful accept_offer or
\* cancel_offer of the offer that vault belongs to.
VaultCustody ==
    [][\A v \in VaultAddrs :
          (/\ tokens[v] # NoAccount
           /\ IF tokens'[v] = NoAccount THEN TRUE
              ELSE tokens'[v].amount < tokens[v].amount)
          => /\ last'.op \in {"accept_offer", "cancel_offer"}
             /\ IsOpen(State, last'.offer)
             /\ v = OfferVault(last'.offer)]_vars

\* C9 witness: an accept_offer or cancel_offer has just emptied and closed
\* its offer's vault while the vault of another Open offer stands untouched.
VaultCustodyReached ==
    /\ last.op \in {"accept_offer", "cancel_offer"}
    /\ \A m \in Mints : tokens[VaultPda(last.offer, m)] = NoAccount
    /\ \E k \in OpenOffers : tokens[OfferVault(k)].amount > 0

\* C10. Offer ids per maker: the ids a user's successful create_offer calls
\* have produced are 0, 1, .., N-1 in that order, and the user's offer_count
\* is N; at the maximum offer_count every create_offer is rejected, changing
\* nothing, with CounterOverflow whenever its accounts pass validation and
\* its amounts are positive.
OfferIdsInOrder ==
    \A w \in Wallets :
        LET p == ProfilePda(w) IN
        /\ issued[w] = [i \in 1..Len(issued[w]) |-> i - 1]
        /\ IF profiles[p] = NoAccount THEN issued[w] = <<>>
           ELSE /\ profiles[p].offer_count = Len(issued[w])
                /\ profiles[p].offer_count \in 0..U64Max
                /\ profiles[p].offer_count = U64Max =>
                      \A a \in CreateCalls(p) :
                          LET r == create_offer(State, a) IN
                          /\ Rejected(r, State)
                          /\ (/\ CreateOfferAccounts(State, a) = "Ok"
                              /\ CreateOfferAmounts(a) = "Ok")
                                => r.err = "CounterOverflow"

\* C10 witness: a user has created offers 0 .. U64Max-1, the first of them
\* has been resolved, and the user's next create_offer is turned away with
\* CounterOverflow.
OfferIdsInOrderReached ==
    \E w \in Wallets :
        /\ Len(issued[w]) = U64Max
        /\ OfferPda(w, 0) \in resolved
        /\ \E a \in CreateCalls(ProfilePda(w)) :
              create_offer(State, a).err = "CounterOverflow"

\* The accepts of Open offer k that differ from one that commits only in the
\* mint descriptors they name; the vault named is the offer's own or the one
\* derived from the mint_offered descriptor.
MismatchedAccepts(k) ==
    UNION {{[a EXCEPT !.mint_offered = mo, !.mint_wanted = mw, !.vault = v] :
                mw \in Mints, v \in {a.vault, VaultPda(k, mo)}} :
             a \in SuccessfulAccepts(k), mo \in Mints}
    \ {a \in AcceptCalls(OfferMaker(k), OfferId(k)) :
          /\ a.mint_offered = offers[k].mint_offered
          /\ a.mint_wanted = offers[k].mint_wanted}

\* C11 as stated: every accept_offer naming a mint_offered or mint_wanted
\* other than the one recorded on the offer is rejected with InvalidMint
\* and changes nothing.
MismatchedMintIsInvalidMint ==
    \A k \in OpenOffers :
        \A a \in MismatchedAccepts(k) :
            /\ accept_offer(State, a).err = "InvalidMint"
            /\ accept_offer(State, a).st = State

\* The accepts of Open offer k that differ from one that commits only in the
\* maker they name.
WrongMakerAccepts(k) ==
    {[a EXCEPT !.maker = w] :
        a \in SuccessfulAccepts(k), w \in Wallets \ {offers[k].maker}}

\* The accepts of Open offer k that differ from one that commits only in one
\* token account, replaced by an account of the same mint that another user
\* owns.
WrongOwnerAccepts(k) ==
    LET others(t) == {x \in UserTokenAddrs :
                        /\ tokens[x].mint = tokens[t].mint
                        /\ tokens[x].owner # tokens[t].owner}
    IN  UNION {   {[a EXCEPT !.maker_token_account_wanted = x] :
                     x \in others(a.maker_token_account_wanted)}
             \cup {[a EXCEPT !.taker_token_account_wanted = x] :
                     x \in others(a.taker_token_account_wanted)}
             \cup {[a EXCEPT !.taker_token_account_offered = x] :
                     x \in others(a.taker_token_account_offered)} :
               a \in SuccessfulAccepts(k)}

\* C12 as stated: every accept_offer that names a maker other than the one
\* recorded, a maker receiving account the maker does not own, or a taker
\* account the caller does not own, is rejected with Unauthorized and
\* changes nothing.
WrongPartyIsUnauthorized ==
    \A k \in OpenOffers :
        \A a \in WrongMakerAccepts(k) \cup WrongOwnerAccepts(k) :
            /\ accept_offer(State, a).err = "Unauthorized"
            /\ accept_offer(State, a).st = State

\* The create_offer calls of user w that are in order but for the profile:
\* w signs and is the authority named, the token account is w's own account
\* of mint_offered, and both amounts are positive.
OwnCreateCalls(w) ==
    {a \in CreateCalls(ProfilePda(w)) :
        /\ a.maker = w /\ a.authority = w
        /\ a.maker_token_account = UserToken(w[2], a.mint_offered)
        /\ a.amount_offered > 0 /\ a.amount_wanted > 0}

\* C13 as stated: a create_offer by a user who has no profile is rejected
\* with UninitializedUserProfile and changes nothing.
NoProfileIsUninitializedUserProfile ==
    \A w \in Wallets :
        profiles[ProfilePda(w)] = NoAccount =>
            \A a \in OwnCreateCalls(w) :
                /\ create_offer(State, a).err = "UninitializedUserProfile"
                /\ create_offer(State, a).st = State

\* C14. All-or-nothing: every initialize_user, create_offer, accept_offer
\* and cancel_offer that fails leaves the whole state as it was.  A
\* create_offer whose token account holds less than amount_offered fails,
\* and an accept_offer whose paying account holds less than amount_wanted
\* fails; after it every cancel_offer that would have committed still does.
AllOrNothing ==
    /\ \A w \in Wallets :
          initialize_user(State, w).err # "Ok"
            => initialize_user(State, w).st = State
    /\ \A p \in ProfileAddrs :
          \A a \in CreateCalls(p) :
              LET r == create_offer(State, a) IN
              /\ r.err # "Ok" => r.st = State
              /\ tokens[a.maker_token_account].amount < a.amount_offered
                    => r.err # "Ok"
    /\ \A k \in OpenOffers :
          LET cancels == SuccessfulCancels(k) IN
          /\ \A a \in AcceptCalls(OfferMaker(k), OfferId(k)) :
                LET r == accept_offer(State, a) IN
                /\ r.err # "Ok" => r.st = State
                /\ tokens[a.taker_token_account_offered].amount
                     < offers[k].amount_wanted
                      => r.err # "Ok" /\ IsOpen(r.st, k)
          /\ \A a \in AcceptCandidates(k) :
                tokens[a.taker_token_account_offered].amount
                  < offers[k].amount_wanted
                  => \A c \in cancels :
                        cancel_offer(accept_offer(State, a).st, c).err = "Ok"
          /\ \A w \in Wallets :
                \A c \in CancelCalls(w, k) :
                    cancel_offer(State, c).err # "Ok"
                      => cancel_offer(State, c).st = State

\* C14 witness: an offer has just been created that asks for more than the
\* other user holds; that user's accept fails for want of funds, a create of
\* a further offer fails for want of funds, and the maker can still cancel.
AllOrNothingReached ==
    /\ last.op = "create_offer"
    /\ IsOpen(State, last.offer)
    /\ SuccessfulCancels(last.offer) # {}
    /\ \E a \in AcceptCalls(OfferMaker(last.offer), OfferId(last.offer)) :
          /\ a.taker # last.signer
          /\ accept_offer(State, a).err = "InsufficientFunds"
    /\ \E a \in OwnCreateCalls(last.signer) :
          create_offer(State, a).err = "InsufficientFunds"

\* C15. initialize_user by a user without a profile creates the profile
\* with that user as authority and offer_count = 0 and changes nothing else;
\* initialize_user by a user who has a profile is rejected and leaves the
\* profile, its offer_count included, as it was.
InitializeOnce ==
    \A w \in Wallets :
        LET r == initialize_user(State, w) IN
        IF profiles[ProfilePda(w)] = NoAccount
        THEN /\ r.err = "Ok"
             /\ r.st = [State EXCEPT !.profiles[ProfilePda(w)] =
                                        UserProfile(w, 0),
                                     !.lamports[w] = @ - ProfileRent]
        ELSE /\ r.err = "AccountAlreadyInUse"
             /\ r.st = State

\* C15 witness: a user who has created offers since initialize_user calls it
\* again and is turned away.
InitializeOnceReached ==
    \E w \in Wallets :
        /\ profiles[ProfilePda(w)] # NoAccount
        /\ profiles[ProfilePda(w)].offer_count > 0
        /\ initialize_user(State, w).err = "AccountAlreadyInUse"
        /\ last.op = "create_offer"
        /\ last.signer = w

\* The token accounts that exist at the vault addresses of offer k.
VaultsOf(k) == {v \in {VaultPda(k, m) : m \in Mints} : tokens[v] # NoAccount}

\* C16. Offer and vault share one lifetime: in every state an offer record
\* exists exactly when a vault of it exists, and that vault is the one of
\* the offer's mint_offered; so create_offer brings both into being in one
\* step and accept_offer and cancel_offer remove both in one step.
OfferIffVault ==
    \A k \in OfferAddrs :
        IF IsOpen(State, k) THEN VaultsOf(k) = {OfferVault(k)}
        ELSE VaultsOf(k) = {}

\* C16 witness: one offer has been resolved, leaving neither record nor
\* vault, while another, just created, has both.
OfferIffVaultReached ==
    /\ last.op = "create_offer"
    /\ IsOpen(State, last.offer)
    /\ VaultsOf(last.offer) # {}
    /\ \E k \in resolved : ~IsOpen(State, k) /\ VaultsOf(k) = {}

\* C17. Offer record integrity: the record a create_offer writes carries
\* the maker, the mints and the amounts the call gave and the offer_count
\* it found; the record at the address derived from (m, i) has maker m and
\* offer_id i and stays, while Open, as create_offer wrote it; and a
\* cancel_offer of it pays the maker exactly the recorded amount_offered.
\* (What accept_offer moves is C3.)
OfferRecordIntegrity ==
    /\ \A p \in ProfileAddrs :
          \A a \in CreateCalls(p) :
              LET r == create_offer(State, a) IN
              r.err = "Ok" =>
                  LET o == r.st.offers[CreateOfferAddr(State, a)] IN
                  /\ o.maker = a.maker
                  /\ o.offer_id = profiles[p].offer_count
                  /\ o.mint_offered = a.mint_offered
                  /\ o.mint_wanted = a.mint_wanted
                  /\ o.amount_offered = a.amount_offered
                  /\ o.amount_wanted = a.amount_wanted
    /\ \A k \in OpenOffers :
          /\ offers[k].maker = OfferMaker(k)
          /\ offers[k].offer_id = OfferId(k)
          /\ offers[k].amount_offered > 0 /\ offers[k].amount_wanted > 0
          /\ offers[k] = opened[k].record
          /\ \A c \in SuccessfulCancels(k) :
                UserBalance(cancel_offer(State, c).st.tokens, OfferMaker(k),
                            offers[k].mint_offered)
                  = UserBalance(tokens, OfferMaker(k), offers[k].mint_offered)
                    + offers[k].amount_offered

\* C17 witness: an offer whose two amounts differ and whose two mints differ
\* is Open after a later direct transfer, its record as written, and its
\* maker can cancel it.
OfferRecordIntegrityReached ==
    /\ last.op = "direct_transfer"
    /\ \E k \in OpenOffers :
          /\ offers[k].amount_offered # offers[k].amount_wanted
          /\ offers[k].mint_offered # offers[k].mint_wanted
          /\ offers[k] = opened[k].record
          /\ SuccessfulCancels(k) # {}

\* The Open offers whose recorded maker is w.
OffersOf(w) == {k \in OpenOffers : offers[k].maker = w}

RECURSIVE SumOver(_, _)
SumOver(tk, S) ==
    IF S = {} THEN 0
    ELSE LET t == CHOOSE x \in S : TRUE
         IN  tk[t].amount + SumOver(tk, S \ {t})

\* The supply of mint m: what all the users' accounts and all the vaults
\* that exist hold of it.
TotalOf(tk, m) ==
    SumOver(tk, {t \in TokenAddrs : tk[t] # NoAccount /\ tk[t].mint = m})

\* The supply of mint m at the start.
RECURSIVE InitialTotalOver(_, _)
InitialTotalOver(U, m) ==
    IF U = {} THEN 0
    ELSE LET u == CHOOSE x \in U : TRUE
         IN  InitialBalance(u, m) + InitialTotalOver(U \ {u}, m)

\* C19. Conservation: in every state, whatever transactions have run, what
\* the users' accounts and the existing vaults together hold of each mint
\* is what the users held of it at the start.
Conservation ==
    \A m \in Mints : TotalOf(tokens, m) = InitialTotalOver(Users, m)

\* C19 witness: a maker has just accepted their own offer while the vault of
\* another user's Open offer holds its escrow.
ConservationReached ==
    /\ last.op = "accept_offer"
    /\ last.signer = OfferMaker(last.offer)
    /\ \E k \in OpenOffers :
          /\ OfferMaker(k) # last.signer
          /\ tokens[OfferVault(k)].amount > 0

\* Everything of state `new` that does not belong to offer k is as in the
\* current state: every other offer record, every other vault, and every
\* profile.
OthersUntouched(new, k) ==
    /\ \A o \in OfferAddrs \ {k} : new.offers[o] = offers[o]
    /\ \A v \in VaultAddrs \ {VaultPda(k, m) : m \in Mints} :
          new.tokens[v] = tokens[v]
    /\ new.profiles = profiles

\* C20. Isolation: a create_offer that commits changes no profile but the
\* signing maker's, and no offer record or vault that exists; an
\* accept_offer or cancel_offer that commits on one offer changes no other
\* offer record, no other vault, and no profile.
Isolation ==
    /\ \A p \in ProfileAddrs :
          \A a \in CreateCalls(p) :
              LET r == create_offer(State, a) IN
              r.err = "Ok" =>
                  /\ \A q \in ProfileAddrs \ {ProfilePda(a.maker)} :
                        r.st.profiles[q] = profiles[q]
                  /\ \A o \in OpenOffers : r.st.offers[o] = offers[o]
                  /\ \A v \in VaultAddrs :
                        tokens[v] # NoAccount => r.st.tokens[v] = tokens[v]
    /\ \A k \in OpenOffers :
          /\ \A a \in SuccessfulAccepts(k) :
                OthersUntouched(accept_offer(State, a).st, k)
          /\ \A c \in SuccessfulCancels(k) :
                OthersUntouched(cancel_offer(State, c).st, k)

\* C20 witness: both users have a profile, each has an Open offer, and one
\* of the two has just cancelled another offer of theirs.
IsolationReached ==
    /\ last.op = "cancel_offer"
    /\ OffersOf(last.signer) # {}
    /\ \E w \in Wallets \ {last.signer} : OffersOf(w) # {}

====
